---- MODULE Spec2Model ----
(***************************************************************************)
(* Model of the hit-counter store of the Flask demo application (app.py):  *)
(* the SQLite table `hits`, the module-level lock db_lock, the functions   *)
(* init_database, increment_hit_count and get_hit_counts, and the three    *)
(* request handlers home ('/'), health ('/health') and hits ('/hits'),     *)
(* each run by one of a fixed number of request threads.                   *)
(***************************************************************************)
EXTENDS Integers, Sequences, FiniteSets, TLC

\* ---------------------------------------------------------------- bounds
NumThreads == 2
MaxRequests == 3
MaxInitCalls == 1
MaxLiveRequests == 2

\* ------------------------------------------------------------- constants
Threads == 1 .. NumThreads
NoThread == 0

\* The registered routes (the @app.route decorators).
Routes == {"/", "/health", "/hits"}

\* The bytes of each path; SQLite's default BINARY collation orders TEXT by them.
Bytes(e) ==
    CASE e = "/" -> <<47>>
      [] e = "/health" -> <<47, 104, 101, 97, 108, 116, 104>>
      [] e = "/hits" -> <<47, 104, 105, 116, 115>>

\* memcmp order of two byte strings, the shorter one first on a common prefix.
RECURSIVE BytesLess(_, _)
BytesLess(a, b) ==
    IF b = <<>> THEN FALSE
    ELSE IF a = <<>> THEN TRUE
    ELSE IF Head(a) # Head(b) THEN Head(a) < Head(b)
    ELSE BytesLess(Tail(a), Tail(b))

\* --------------------------------------------------------- the hits table
\* A row of the table hits (endpoint TEXT PRIMARY KEY, hits INTEGER).
Row(e, n) == [endpoint |-> e, hits |-> n]

\* SELECT hits FROM hits WHERE endpoint = ? : the values of the matching rows.
SelectHits(tbl, e) == {r.hits : r \in {x \in tbl : x.endpoint = e}}

\* COALESCE(<scalar subquery>, d): the subquery's value, d when it has no row.
Coalesce(vals, d) == IF vals = {} THEN d ELSE CHOOSE v \in vals : TRUE

\* Mutant: the new count wraps around instead of growing.
NewHitsWrapping(tbl, e) == (Coalesce(SelectHits(tbl, e), 0) + 1) % 2

\* Mutant: VALUES (?, 1), the stored count is not read.
NewHitsNoSelect(tbl, e) == 1

\* The value bound by the statement: COALESCE((SELECT ...), 0) + 1.
NewHits(tbl, e) == Coalesce(SelectHits(tbl, e), 0) + 1

\* Mutant: a plain INSERT into a table without the primary key.
InsertKeepingOld(tbl, row) == tbl \cup {row}

\* Mutant: the REPLACE deletes every row, not only the one in conflict.
ReplaceAllRows(tbl, row) == {row}

\* INSERT OR REPLACE: rows in conflict on the primary key are deleted first.
InsertOrReplace(tbl, row) ==
    {r \in tbl : r.endpoint # row.endpoint} \cup {row}

\* Mutant: a new table is seeded with a zero row for each tracked path.
CreateTableSeeded(exists, tbl) ==
    IF exists THEN tbl ELSE {Row("/", 0), Row("/health", 0)}

\* Mutant: DROP TABLE IF EXISTS followed by CREATE TABLE.
DropAndCreateTable(exists, tbl) == {}

\* CREATE TABLE IF NOT EXISTS hits: an existing table keeps its rows.
CreateTableIfNotExists(exists, tbl) == IF exists THEN tbl ELSE {}

\* Mutant: ORDER BY endpoint DESC.
RECURSIVE OrderByEndpointDesc(_)
OrderByEndpointDesc(tbl) ==
    IF tbl = {} THEN <<>>
    ELSE LET first == CHOOSE r \in tbl :
                 \A o \in tbl : ~BytesLess(Bytes(r.endpoint), Bytes(o.endpoint))
         IN  <<first>> \o OrderByEndpointDesc(tbl \ {first})

\* SELECT endpoint, hits FROM hits ORDER BY endpoint, as fetchall()'s list.
RECURSIVE OrderByEndpoint(_)
OrderByEndpoint(tbl) ==
    IF tbl = {} THEN <<>>
    ELSE LET first == CHOOSE r \in tbl :
                 \A o \in tbl : ~BytesLess(Bytes(o.endpoint), Bytes(r.endpoint))
         IN  <<first>> \o OrderByEndpoint(tbl \ {first})

\* ------------------------------------------------------------ Python dict
\* A dict is the sequence of its (key, value) items in insertion order.
DictKeys(d) == {d[i][1] : i \in 1 .. Len(d)}

DictGet(d, k) == (CHOOSE i \in 1 .. Len(d) : d[i][1] = k)

DictValue(d, k) == d[DictGet(d, k)][2]

\* d[k] = v : an existing key keeps its position, a new key goes last.
DictSet(d, k, v) ==
    IF k \in DictKeys(d)
    THEN [i \in 1 .. Len(d) |-> IF d[i][1] = k THEN <<k, v>> ELSE d[i]]
    ELSE Append(d, <<k, v>>)

\* {endpoint: hits for endpoint, hits in results}
RECURSIVE DictFromRows(_)
DictFromRows(results) ==
    IF results = <<>> THEN <<>>
    ELSE DictSet(DictFromRows(SubSeq(results, 1, Len(results) - 1)),
                 results[Len(results)].endpoint, results[Len(results)].hits)

\* sum(hit_counts.values())
RECURSIVE SumValues(_)
SumValues(d) == IF d = <<>> THEN 0 ELSE d[1][2] + SumValues(Tail(d))

\* ---------------------------------------------------------------- handlers
\* Mutant: every handler, hits included, counts its own route.
TrackedByAnyRoute(r) == {r}

\* The endpoints a route's handler passes to increment_hit_count.
TrackedBy(r) ==
    CASE r = "/" -> {"/"}
      [] r = "/health" -> {"/health"}
      [] r = "/hits" -> {}

Tracked == UNION {TrackedBy(r) : r \in Routes}

NoResponse == [status |-> 0, body |-> "none", hits |-> <<>>, total_hits |-> 0]

\* home(): jsonify of the welcome message, whatever increment_hit_count returned.
home == [status |-> 200, body |-> "welcome", hits |-> <<>>, total_hits |-> 0]

\* health(): jsonify of the healthy status.
health == [status |-> 200, body |-> "healthy", hits |-> <<>>, total_hits |-> 0]

\* Mutant: total_hits = len(hit_counts).
TotalHitsAsLen(hit_counts) == Len(hit_counts)

\* total_hits = sum(hit_counts.values()) if hit_counts else 0
TotalHits(hit_counts) == IF hit_counts # <<>> THEN SumValues(hit_counts) ELSE 0

\* hits(): jsonify of the mapping and its total.
hits(hit_counts) ==
    [status |-> 200, body |-> "hits", hits |-> hit_counts,
     total_hits |-> TotalHits(hit_counts)]

\* What Flask answers when a view function raises.
InternalServerError ==
    [status |-> 500, body |-> "error", hits |-> <<>>, total_hits |-> 0]

\* ------------------------------------------------------------------- state
VARIABLES
    main,        \* the module: "load" before line 94 ran, "serving", "crashed"
    schema,      \* TRUE when the table hits exists in hits.db
    table,       \* the committed rows of the table hits
    db_lock,     \* the thread holding db_lock, NoThread when free
    pc,          \* each thread's position
    route,       \* the route each thread is serving
    pending,     \* the uncommitted rows written on each thread's connection
    ret,         \* what increment_hit_count returned to the handler
    hit_counts,  \* what get_hit_counts returned to the handler
    raised,      \* TRUE when the call of this request met a sqlite3.Error
    resp,        \* the last response each thread sent
    base,        \* per thread: the tracked requests answered before it was dispatched
    seen,        \* per thread: those of them whose increment had returned True
    nOk,         \* per endpoint: increment_hit_count calls that returned True
    nFail,       \* per endpoint: increment_hit_count calls that returned False
    dispatched,  \* requests dispatched so far
    initCalls,   \* init_database calls made after the module was loaded
    reinit       \* TRUE once init_database was called on a store holding counts

vars == <<main, schema, table, db_lock, pc, route, pending, ret, hit_counts,
          raised, resp, base, seen, nOk, nFail, dispatched, initCalls, reinit>>

Zero == [e \in Routes |-> 0]

\* The endpoint the thread's handler is counting.
Arg(t) == CHOOSE e \in TrackedBy(route[t]) : TRUE

\* Tracked requests for e whose handler has returned.
Answered(e) ==
    nOk[e] + nFail[e]
    - Cardinality({t \in Threads : pc[t] = "respond" /\ e \in TrackedBy(route[t])})

\* Tracked requests for e whose handler has returned after a successful increment.
AnsweredOk(e) ==
    nOk[e]
    - Cardinality({t \in Threads :
          pc[t] = "respond" /\ ret[t] /\ e \in TrackedBy(route[t])})

\* Tracked requests for e dispatched so far.
Started(e) ==
    nOk[e] + nFail[e]
    + Cardinality({t \in Threads :
          /\ pc[t] \in {"inc_lock", "inc_exec", "inc_commit", "inc_unlock"}
          /\ e \in TrackedBy(route[t])})

\* The count stored for e, 0 when it has no row.
Count(e) == Coalesce(SelectHits(table, e), 0)

Init ==
    /\ main = "load"
    /\ schema = FALSE
    /\ table = {}
    /\ db_lock = NoThread
    /\ pc = [t \in Threads |-> "idle"]
    /\ route = [t \in Threads |-> "/"]
    /\ pending = [t \in Threads |-> {}]
    /\ ret = [t \in Threads |-> FALSE]
    /\ hit_counts = [t \in Threads |-> <<>>]
    /\ raised = [t \in Threads |-> FALSE]
    /\ resp = [t \in Threads |-> NoResponse]
    /\ base = [t \in Threads |-> Zero]
    /\ seen = [t \in Threads |-> Zero]
    /\ nOk = Zero
    /\ nFail = Zero
    /\ dispatched = 0
    /\ initCalls = 0
    /\ reinit = FALSE

\* ----------------------------------------------------------- init_database
\* init_database(): connect, CREATE TABLE IF NOT EXISTS, commit.  Line 94 calls
\* it when the module is loaded; a caller may call it again later.
InitDatabase ==
    /\ \/ main = "load" /\ main' = "serving" /\ UNCHANGED initCalls
       \/ /\ main = "serving"
          /\ initCalls < MaxInitCalls
          /\ initCalls' = initCalls + 1
          /\ UNCHANGED main
    /\ table' = CreateTableIfNotExists(schema, table)
    /\ schema' = TRUE
    /\ reinit' = (reinit \/ table # {})
    /\ UNCHANGED <<db_lock, pc, route, pending, ret, hit_counts, raised, resp,
                   base, seen, nOk, nFail, dispatched>>

\* Mutant: init_database catches the sqlite3.Error and returns normally, so
\* the module finishes loading without a table.
InitDatabaseErrorSwallowed ==
    /\ \/ main = "load" /\ main' = "serving" /\ UNCHANGED initCalls
       \/ /\ main = "serving"
          /\ initCalls < MaxInitCalls
          /\ initCalls' = initCalls + 1
          /\ UNCHANGED main
    /\ UNCHANGED <<schema, table, db_lock, pc, route, pending, ret, hit_counts,
                   raised, resp, base, seen, nOk, nFail, dispatched, reinit>>

\* init_database() meets a sqlite3.Error: nothing catches it, so it reaches the
\* caller; at module load the import fails and no request is ever served.
InitDatabaseError ==
    /\ \/ main = "load" /\ main' = "crashed" /\ UNCHANGED initCalls
       \/ /\ main = "serving"
          /\ initCalls < MaxInitCalls
          /\ initCalls' = initCalls + 1
          /\ UNCHANGED main
    /\ UNCHANGED <<schema, table, db_lock, pc, route, pending, ret, hit_counts,
                   raised, resp, base, seen, nOk, nFail, dispatched, reinit>>

\* ------------------------------------------------------------ the requests
\* Flask dispatches a request for route r to thread t, which enters the view:
\* home and health call increment_hit_count, hits calls get_hit_counts.
Dispatch(t, r) ==
    /\ main = "serving"
    /\ pc[t] = "idle"
    /\ dispatched < MaxRequests
    /\ dispatched' = dispatched + 1
    /\ route' = [route EXCEPT ![t] = r]
    /\ pc' = [pc EXCEPT ![t] = IF TrackedBy(r) # {} THEN "inc_lock" ELSE "get_lock"]
    /\ base' = [base EXCEPT ![t] = [e \in Routes |-> Answered(e)]]
    /\ seen' = [seen EXCEPT ![t] = [e \in Routes |-> AnsweredOk(e)]]
    /\ resp' = [resp EXCEPT ![t] = NoResponse]
    /\ ret' = [ret EXCEPT ![t] = FALSE]
    /\ hit_counts' = [hit_counts EXCEPT ![t] = <<>>]
    /\ raised' = [raised EXCEPT ![t] = FALSE]
    /\ UNCHANGED <<main, schema, table, db_lock, pending, nOk, nFail, initCalls, reinit>>

\* ------------------------------------------------------ increment_hit_count
\* Mutant: the critical section is entered without waiting for db_lock.
IncLockNoWait(t) ==
    /\ pc[t] = "inc_lock"
    /\ db_lock' = t
    /\ pc' = [pc EXCEPT ![t] = "inc_exec"]
    /\ UNCHANGED <<main, schema, table, route, pending, ret, hit_counts, raised,
                   resp, base, seen, nOk, nFail, dispatched, initCalls, reinit>>

\* with db_lock: (line 60)
IncLock(t) ==
    /\ pc[t] = "inc_lock"
    /\ db_lock = NoThread
    /\ db_lock' = t
    /\ pc' = [pc EXCEPT ![t] = "inc_exec"]
    /\ UNCHANGED <<main, schema, table, route, pending, ret, hit_counts, raised,
                   resp, base, seen, nOk, nFail, dispatched, initCalls, reinit>>

\* sqlite3.connect and cursor.execute of the INSERT OR REPLACE (lines 61-66):
\* the row is written on this connection, not yet committed.
IncExecute(t) ==
    /\ pc[t] = "inc_exec"
    /\ schema
    /\ pending' = [pending EXCEPT ![t] = {Row(Arg(t), NewHits(table, Arg(t)))}]
    /\ pc' = [pc EXCEPT ![t] = "inc_commit"]
    /\ UNCHANGED <<main, schema, table, db_lock, route, ret, hit_counts, raised,
                   resp, base, seen, nOk, nFail, dispatched, initCalls, reinit>>

\* The rows of the table after the connection's writes are committed.
Committed(tbl, rows) ==
    IF rows = {} THEN tbl
    ELSE LET row == CHOOSE r \in rows : TRUE
         IN  InsertOrReplace(tbl, row)

\* Mutant: the call returns without committing, the connection's write is
\* dropped with the connection.
IncCommitSkipped(t) ==
    /\ pc[t] = "inc_commit"
    /\ pending' = [pending EXCEPT ![t] = {}]
    /\ pc' = [pc EXCEPT ![t] = "inc_unlock"]
    /\ UNCHANGED <<main, schema, table, db_lock, route, ret, hit_counts, raised,
                   resp, base, seen, nOk, nFail, dispatched, initCalls, reinit>>

\* conn.commit() (line 67).
IncCommit(t) ==
    /\ pc[t] = "inc_commit"
    /\ table' = Committed(table, pending[t])
    /\ pending' = [pending EXCEPT ![t] = {}]
    /\ pc' = [pc EXCEPT ![t] = "inc_unlock"]
    /\ UNCHANGED <<main, schema, db_lock, route, ret, hit_counts, raised, resp,
                   base, seen, nOk, nFail, dispatched, initCalls, reinit>>

\* The with blocks are left, db_lock is released, return True (line 68).
IncUnlock(t) ==
    /\ pc[t] = "inc_unlock"
    /\ db_lock' = NoThread
    /\ ret' = [ret EXCEPT ![t] = TRUE]
    /\ nOk' = [nOk EXCEPT ![Arg(t)] = @ + 1]
    /\ pc' = [pc EXCEPT ![t] = "respond"]
    /\ UNCHANGED <<main, schema, table, route, pending, hit_counts, raised, resp,
                   base, seen, nFail, dispatched, initCalls, reinit>>

\* Mutant: no except clause, the sqlite3.Error leaves the view and Flask
\* answers 500.
IncErrorUncaught(t) ==
    /\ pc[t] \in {"inc_exec", "inc_commit"}
    /\ pending' = [pending EXCEPT ![t] = {}]
    /\ db_lock' = NoThread
    /\ raised' = [raised EXCEPT ![t] = TRUE]
    /\ nFail' = [nFail EXCEPT ![Arg(t)] = @ + 1]
    /\ resp' = [resp EXCEPT ![t] = InternalServerError]
    /\ pc' = [pc EXCEPT ![t] = "idle"]
    /\ UNCHANGED <<main, schema, table, route, ret, hit_counts, base, seen, nOk,
                   dispatched, initCalls, reinit>>

\* Mutant: the failed connection's writes are committed instead of rolled back.
IncErrorNoRollback(t) ==
    /\ pc[t] \in {"inc_exec", "inc_commit"}
    /\ table' = Committed(table, pending[t])
    /\ pending' = [pending EXCEPT ![t] = {}]
    /\ db_lock' = NoThread
    /\ ret' = [ret EXCEPT ![t] = FALSE]
    /\ raised' = [raised EXCEPT ![t] = TRUE]
    /\ nFail' = [nFail EXCEPT ![Arg(t)] = @ + 1]
    /\ pc' = [pc EXCEPT ![t] = "respond"]
    /\ UNCHANGED <<main, schema, route, hit_counts, resp, base, seen, nOk,
                   dispatched, initCalls, reinit>>

\* Mutant: the lock is taken with acquire() and released only on the success
\* path, so the error path returns False with db_lock still held.
IncErrorLockHeld(t) ==
    /\ pc[t] \in {"inc_exec", "inc_commit"}
    /\ pending' = [pending EXCEPT ![t] = {}]
    /\ ret' = [ret EXCEPT ![t] = FALSE]
    /\ raised' = [raised EXCEPT ![t] = TRUE]
    /\ nFail' = [nFail EXCEPT ![Arg(t)] = @ + 1]
    /\ pc' = [pc EXCEPT ![t] = "respond"]
    /\ UNCHANGED <<main, schema, table, db_lock, route, hit_counts, resp, base,
                   seen, nOk, dispatched, initCalls, reinit>>

\* connect, execute or commit raises sqlite3.Error: the connection rolls back,
\* db_lock is released by its with block, the except clause returns False
\* (lines 69-71).
IncError(t) ==
    /\ pc[t] \in {"inc_exec", "inc_commit"}
    /\ pending' = [pending EXCEPT ![t] = {}]
    /\ db_lock' = NoThread
    /\ ret' = [ret EXCEPT ![t] = FALSE]
    /\ raised' = [raised EXCEPT ![t] = TRUE]
    /\ nFail' = [nFail EXCEPT ![Arg(t)] = @ + 1]
    /\ pc' = [pc EXCEPT ![t] = "respond"]
    /\ UNCHANGED <<main, schema, table, route, hit_counts, resp, base, seen, nOk,
                   dispatched, initCalls, reinit>>

\* ----------------------------------------------------------- get_hit_counts
\* Mutant: get_hit_counts reads without waiting for db_lock.
GetLockNoWait(t) ==
    /\ pc[t] = "get_lock"
    /\ db_lock' = t
    /\ pc' = [pc EXCEPT ![t] = "get_select"]
    /\ UNCHANGED <<main, schema, table, route, pending, ret, hit_counts, raised,
                   resp, base, seen, nOk, nFail, dispatched, initCalls, reinit>>

\* with db_lock: (line 83)
GetLock(t) ==
    /\ pc[t] = "get_lock"
    /\ db_lock = NoThread
    /\ db_lock' = t
    /\ pc' = [pc EXCEPT ![t] = "get_select"]
    /\ UNCHANGED <<main, schema, table, route, pending, ret, hit_counts, raised,
                   resp, base, seen, nOk, nFail, dispatched, initCalls, reinit>>

\* Mutant: the counts are read and then deleted (DELETE FROM hits).
GetSelectAndReset(t) ==
    /\ pc[t] = "get_select"
    /\ schema
    /\ hit_counts' = [hit_counts EXCEPT ![t] = DictFromRows(OrderByEndpoint(table))]
    /\ table' = {}
    /\ pc' = [pc EXCEPT ![t] = "get_unlock"]
    /\ UNCHANGED <<main, schema, db_lock, route, pending, ret, raised,
                   resp, base, seen, nOk, nFail, dispatched, initCalls, reinit>>

\* connect, the SELECT, fetchall and the dict comprehension (lines 84-88).
GetSelect(t) ==
    /\ pc[t] = "get_select"
    /\ schema
    /\ hit_counts' = [hit_counts EXCEPT ![t] = DictFromRows(OrderByEndpoint(table))]
    /\ pc' = [pc EXCEPT ![t] = "get_unlock"]
    /\ UNCHANGED <<main, schema, table, db_lock, route, pending, ret, raised,
                   resp, base, seen, nOk, nFail, dispatched, initCalls, reinit>>

\* The with blocks are left, db_lock is released, the dict is returned.
GetUnlock(t) ==
    /\ pc[t] = "get_unlock"
    /\ db_lock' = NoThread
    /\ pc' = [pc EXCEPT ![t] = "respond"]
    /\ UNCHANGED <<main, schema, table, route, pending, ret, hit_counts, raised,
                   resp, base, seen, nOk, nFail, dispatched, initCalls, reinit>>

\* Mutant: no except clause, the sqlite3.Error leaves the view and Flask
\* answers 500.
GetErrorUncaught(t) ==
    /\ pc[t] = "get_select"
    /\ db_lock' = NoThread
    /\ raised' = [raised EXCEPT ![t] = TRUE]
    /\ resp' = [resp EXCEPT ![t] = InternalServerError]
    /\ pc' = [pc EXCEPT ![t] = "idle"]
    /\ UNCHANGED <<main, schema, table, route, pending, ret, hit_counts, base, seen,
                   nOk, nFail, dispatched, initCalls, reinit>>

\* connect or the SELECT raises sqlite3.Error: db_lock is released by its with
\* block and the except clause returns {} (lines 89-90).
GetError(t) ==
    /\ pc[t] = "get_select"
    /\ db_lock' = NoThread
    /\ hit_counts' = [hit_counts EXCEPT ![t] = <<>>]
    /\ raised' = [raised EXCEPT ![t] = TRUE]
    /\ pc' = [pc EXCEPT ![t] = "respond"]
    /\ UNCHANGED <<main, schema, table, route, pending, ret, resp, base, seen, nOk,
                   nFail, dispatched, initCalls, reinit>>

\* ------------------------------------------------------------ the response
\* The view function's return value for the thread's route.
View(t) ==
    CASE route[t] = "/" -> home
      [] route[t] = "/health" -> health
      [] route[t] = "/hits" -> hits(hit_counts[t])

\* The handler returns its jsonify(...) response.
Respond(t) ==
    /\ pc[t] = "respond"
    /\ resp' = [resp EXCEPT ![t] = View(t)]
    /\ pc' = [pc EXCEPT ![t] = "idle"]
    /\ UNCHANGED <<main, schema, table, db_lock, route, pending, ret, hit_counts,
                   raised, base, seen, nOk, nFail, dispatched, initCalls, reinit>>

Next ==
    \/ InitDatabase
    \/ InitDatabaseError
    \/ \E t \in Threads : \E r \in Routes : Dispatch(t, r)
    \/ \E t \in Threads : IncLock(t)
    \/ \E t \in Threads : IncExecute(t)
    \/ \E t \in Threads : IncCommit(t)
    \/ \E t \in Threads : IncUnlock(t)
    \/ \E t \in Threads : IncError(t)
    \/ \E t \in Threads : GetLock(t)
    \/ \E t \in Threads : GetSelect(t)
    \/ \E t \in Threads : GetUnlock(t)
    \/ \E t \in Threads : GetError(t)
    \/ \E t \in Threads : Respond(t)

Spec == Init /\ [][Next]_vars

\* A step of thread t that does not wait for db_lock.
Run(t) ==
    \/ IncExecute(t) \/ IncCommit(t) \/ IncUnlock(t) \/ IncError(t)
    \/ GetSelect(t) \/ GetUnlock(t) \/ GetError(t)
    \/ Respond(t)

\* Thread t takes db_lock.
Acquire(t) == IncLock(t) \/ GetLock(t)

\* Dispatch, with the requests capped at MaxLiveRequests.
LiveDispatch(t, r) == dispatched < MaxLiveRequests /\ Dispatch(t, r)

\* The module-level init_database call; the runs of FairSpec make no later one.
LoadModule == main = "load" /\ (InitDatabase \/ InitDatabaseError)

LiveNext ==
    \/ LoadModule
    \/ \E t \in Threads : \E r \in Routes : LiveDispatch(t, r)
    \/ \E t \in Threads : Acquire(t)
    \/ \E t \in Threads : Run(t)

\* Fair scheduling: a thread that can run does run, every storage call returns
\* or fails, and a thread that finds db_lock free again and again gets it.
FairSpec ==
    /\ Init /\ [][LiveNext]_vars
    /\ \A t \in Threads : WF_vars(Run(t)) /\ SF_vars(Acquire(t))

TypeOK ==
    /\ main \in {"load", "serving", "crashed"}
    /\ schema \in BOOLEAN
    /\ db_lock \in Threads \cup {NoThread}
    /\ \A t \in Threads : route[t] \in Routes
    /\ \A r \in table : r.endpoint \in Routes /\ r.hits \in Nat
    /\ dispatched \in 0 .. MaxRequests
    /\ initCalls \in 0 .. MaxInitCalls

\* ------------------------------------------------------- shared vocabulary
IncPcs == {"inc_lock", "inc_exec", "inc_commit", "inc_unlock"}
GetPcs == {"get_lock", "get_select", "get_unlock"}

AllIdle == \A t \in Threads : pc[t] = "idle"

\* No increment_hit_count call has returned False.
NoWriteFailure == \A e \in Routes : nFail[e] = 0

\* The endpoints that have a row.
StoredEndpoints == {r.endpoint : r \in table}

\* The count a mapping reports for e, 0 when e is no key of it.
Reported(d, e) == IF e \in DictKeys(d) THEN DictValue(d, e) ELSE 0

\* Thread t's step is a step of the call it is in.
StepsIn(t, pcs) == pc[t] \in pcs /\ pc'[t] # pc[t]

\* ---------------------------------------------------------------------- C1
\* C1: no lost updates.  Once every increment_hit_count call has returned and
\* none of them met a storage failure, the count stored for each endpoint is
\* exactly the number of calls made for it, whatever the interleaving of the
\* threads' steps was.
C1_NoLostUpdates ==
    (AllIdle /\ NoWriteFailure) =>
        \A e \in Routes : Count(e) = nOk[e] + nFail[e]

\* Two threads incremented '/' concurrently (each was dispatched before the
\* other was answered), both have returned, and the count is 2.
C1_Witness ==
    /\ AllIdle /\ NoWriteFailure
    /\ route[1] = "/" /\ route[2] = "/"
    /\ base[1]["/"] = 0 /\ base[2]["/"] = 0
    /\ nOk["/"] = 2
    /\ Count("/") = 2

\* ---------------------------------------------------------------------- C2
\* C2: with no storage failure, the mapping a /hits response carries has only
\* tracked endpoints as keys, never a zero count, and for each tracked endpoint
\* a count between the requests answered before the /hits request was
\* dispatched and the requests dispatched so far; in a sequence of requests the
\* two are equal, so the count is the number of requests made to the endpoint
\* and the keys are the endpoints requested at least once.
C2_HitsReportsRequests ==
    \A t \in Threads :
        (resp[t].body = "hits" /\ ~raised[t] /\ NoWriteFailure) =>
            /\ DictKeys(resp[t].hits) \subseteq Tracked
            /\ Len(resp[t].hits) = Cardinality(DictKeys(resp[t].hits))
            /\ \A e \in DictKeys(resp[t].hits) : DictValue(resp[t].hits, e) >= 1
            /\ \A e \in Tracked :
                   /\ base[t][e] <= Reported(resp[t].hits, e)
                   /\ Reported(resp[t].hits, e) <= Started(e)

\* '/' then '/health' then '/hits', one after the other: {'/': 1, '/health': 1}.
C2_Witness ==
    \E t \in Threads :
        /\ resp[t].body = "hits" /\ ~raised[t] /\ NoWriteFailure
        /\ resp[t].hits = << <<"/", 1>>, <<"/health", 1>> >>
        /\ \A e \in Tracked : base[t][e] = Started(e)

\* ---------------------------------------------------------------------- C3
\* C3: isolation across keys.  No step of increment_hit_count(e) changes the
\* count stored for an endpoint other than e.
C3_IsolationAcrossKeys ==
    [][\A t \in Threads : \A e \in Routes :
          (StepsIn(t, IncPcs) /\ e \notin TrackedBy(route[t]))
              => Count(e)' = Count(e)]_vars

\* M = 1 increments of '/' and K = 2 of '/health' gave {'/': 1, '/health': 2}.
C3_Witness ==
    /\ AllIdle /\ NoWriteFailure
    /\ nOk["/"] = 1 /\ nOk["/health"] = 2
    /\ table = {Row("/", 1), Row("/health", 2)}

\* ---------------------------------------------------------------------- C4
\* C4: self-exclusion.  The table never holds a row for '/hits', no /hits
\* response has '/hits' as a key, and a thread serving /hits is never inside
\* increment_hit_count.
C4_SelfExclusion ==
    /\ "/hits" \notin StoredEndpoints
    /\ \A t \in Threads :
           /\ "/hits" \notin DictKeys(resp[t].hits)
           /\ "/hits" \notin DictKeys(hit_counts[t])
           /\ route[t] = "/hits" => pc[t] \notin IncPcs

\* /hits was answered twice, the second time on a store that holds a count.
C4_Witness ==
    /\ resp[1].body = "hits" /\ resp[2].body = "hits"
    /\ resp[1].hits # <<>>
    /\ dispatched = 3

\* ---------------------------------------------------------------------- C5
\* C5: the snapshot is read-only.  No step of get_hit_counts, whether the read
\* succeeds or fails, and no step of the /hits handler changes the table.
C5_SnapshotReadOnly ==
    [][\A t \in Threads :
          (StepsIn(t, GetPcs) \/ (route[t] = "/hits" /\ pc'[t] # pc[t] /\ pc[t] # "idle"))
              => (table' = table /\ schema' = schema /\ pending' = pending)]_vars

\* On a store holding counts, one /hits request read the table and another failed.
C5_Witness ==
    /\ table # {}
    /\ \E t, u \in Threads :
           /\ route[t] = "/hits" /\ resp[t].body = "hits" /\ ~raised[t]
           /\ route[u] = "/hits" /\ pc[u] = "respond" /\ raised[u]

\* ---------------------------------------------------------------------- C6
\* C6: idempotent initialization.  No init_database call, the one at module
\* load or a later one, successful or failed, changes a row of the table: the
\* snapshot taken after the call is the snapshot taken before it.
C6_InitIdempotent ==
    [][(main' # main \/ initCalls' # initCalls) =>
          /\ table' = table
          /\ OrderByEndpoint(table') = OrderByEndpoint(table)]_vars

\* init_database has been called again on a store that held counts, which it
\* still holds.
C6_Witness == reinit /\ initCalls >= 1 /\ table # {} /\ schema

\* ---------------------------------------------------------------------- C7
\* The sum of the counts of a mapping, taken key by key.
RECURSIVE SumOverKeys(_, _)
SumOverKeys(d, keys) ==
    IF keys = {} THEN 0
    ELSE LET k == CHOOSE x \in keys : TRUE
         IN  DictValue(d, k) + SumOverKeys(d, keys \ {k})

\* C7: the total_hits of every /hits response is the sum of the counts in the
\* hits mapping of that response, and while no tracked request has been made
\* the mapping is empty and total_hits is 0.
C7_TotalIsSum ==
    \A t \in Threads :
        resp[t].body = "hits" =>
            /\ resp[t].total_hits = SumOverKeys(resp[t].hits, DictKeys(resp[t].hits))
            /\ (\A e \in Routes : Started(e) = 0) =>
                   (resp[t].hits = <<>> /\ resp[t].total_hits = 0)

\* A response reporting one endpoint with count 2, so total_hits = 2.
C7_Witness ==
    \E t \in Threads :
        /\ resp[t].body = "hits"
        /\ Len(resp[t].hits) = 1
        /\ resp[t].total_hits = 2

\* ---------------------------------------------------------------------- C8
\* C8: write failures are swallowed.  Every increment_hit_count call ends by
\* returning to its handler (it never raises), it returns True exactly when it
\* ends after its commit, which added one to the endpoint's count, and False
\* exactly when it met a sqlite3.Error; and a '/' or '/health' request always
\* ends with the handler's normal success response.
C8_WriteFailureSwallowed ==
    [][\A t \in Threads :
          TrackedBy(route[t]) # {} =>
              /\ (StepsIn(t, IncPcs) /\ pc'[t] \notin IncPcs) =>
                     /\ pc'[t] = "respond"
                     /\ ret'[t] = (pc[t] = "inc_unlock")
                     /\ raised'[t] = ~ret'[t]
              /\ (pc[t] # "inc_unlock" /\ pc'[t] = "inc_unlock") =>
                     /\ pc[t] = "inc_commit"
                     /\ Count(Arg(t))' = Count(Arg(t)) + 1
              /\ (pc[t] # "idle" /\ pc'[t] = "idle") =>
                     /\ resp'[t].status = 200
                     /\ resp'[t] = IF route[t] = "/" THEN home ELSE health]_vars

\* A '/' request whose increment failed was answered with the welcome message.
C8_Witness ==
    \E t \in Threads :
        /\ route[t] = "/" /\ pc[t] = "idle"
        /\ raised[t] /\ ~ret[t]
        /\ resp[t] = home

\* ---------------------------------------------------------------------- C9
\* Threads whose increment of e is committed and has not returned yet.
Returning(e) ==
    Cardinality({t \in Threads : pc[t] = "inc_unlock" /\ e \in TrackedBy(route[t])})

\* C9: a failed increment has no effect.  In every state the count stored for
\* each endpoint is the number of increment_hit_count calls for it that
\* returned True, plus the calls that are committed and about to return True;
\* the calls that returned False add nothing, then or later.
C9_FailedIncrementNoEffect ==
    \A e \in Routes : Count(e) = nOk[e] + Returning(e)

\* Two calls for '/' returned False and one returned True: the count is 1.
C9_Witness ==
    /\ AllIdle
    /\ nFail["/"] = 2 /\ nOk["/"] = 1
    /\ Count("/") = 1

\* --------------------------------------------------------------------- C10
\* C10: read failures degrade to no data.  When get_hit_counts meets a
\* sqlite3.Error it returns the empty mapping to the /hits handler, which
\* answers 200 with hits = {} and total_hits = 0.
C10_ReadFailureDegrades ==
    \A t \in Threads :
        (route[t] = "/hits" /\ raised[t]) =>
            /\ pc[t] \in {"respond", "idle"}
            /\ hit_counts[t] = <<>>
            /\ pc[t] = "idle" =>
                   resp[t] = [status |-> 200, body |-> "hits", hits |-> <<>>,
                              total_hits |-> 0]

\* The read failed on a store that holds counts and the request was answered.
C10_Witness ==
    \E t \in Threads :
        /\ route[t] = "/hits" /\ raised[t] /\ pc[t] = "idle"
        /\ table # {}
        /\ resp[t].body = "hits"

\* --------------------------------------------------------------------- C11
\* C11: monotonic counts.  In every step, whichever of init_database,
\* increment_hit_count and get_hit_counts takes it, no endpoint's stored count
\* decreases, no stored count is negative, and no endpoint that has a row
\* loses it.
C11_MonotonicCounts ==
    [][/\ \A e \in Routes : Count(e)' >= Count(e) /\ Count(e) >= 0
       /\ \A r \in table' : r.hits >= 0
       /\ StoredEndpoints \subseteq StoredEndpoints']_vars

\* '/' was counted twice, init_database ran again on the counts, and /hits
\* was served.
C11_Witness ==
    /\ Count("/") = 2
    /\ reinit
    /\ \E t \in Threads : resp[t].body = "hits" /\ resp[t].hits # <<>>

\* --------------------------------------------------------------------- C12
\* C12: initialization failure is reported upward.  When init_database fails
\* at module load the module does not finish loading: no request is ever
\* dispatched and no thread runs a handler; requests are served only by a
\* module whose init_database call created the table.
C12_InitFailureReported ==
    /\ main = "crashed" =>
           /\ ~schema /\ table = {}
           /\ dispatched = 0
           /\ AllIdle
           /\ \A t \in Threads : resp[t] = NoResponse
    /\ (dispatched > 0 \/ ~AllIdle) => (main = "serving" /\ schema)
    /\ main = "serving" => schema

\* The module-load call of init_database failed.
C12_Witness == main = "crashed" /\ ~schema /\ dispatched = 0

\* --------------------------------------------------------------------- C14
\* C14: lazy creation.  Until an increment is committed the table has no
\* rows, however often init_database ran; the row written for an endpoint
\* that has none carries count 1; every stored row has count >= 1 and so has
\* every entry of every snapshot.
C14_LazyCreation ==
    /\ \A e \in Routes : (nOk[e] + Returning(e) = 0) => e \notin StoredEndpoints
    /\ \A t \in Threads : \A r \in pending[t] :
           r.endpoint \notin StoredEndpoints => r.hits = 1
    /\ \A r \in table : r.hits >= 1
    /\ \A t \in Threads :
           /\ \A i \in 1 .. Len(hit_counts[t]) : hit_counts[t][i][2] >= 1
           /\ \A i \in 1 .. Len(resp[t].hits) : resp[t].hits[i][2] >= 1

\* After init_database ran twice on an empty store, the first increment of
\* '/health' is committed with count 1 while '/' still has no row.
C14_Witness ==
    /\ initCalls = 1 /\ ~reinit
    /\ table = {Row("/health", 1)}
    /\ \E t \in Threads : pc[t] = "inc_unlock" /\ route[t] = "/health"

\* --------------------------------------------------------------------- C16
\* The endpoints for which an increment has been committed.
Incremented == {e \in Routes : nOk[e] + Returning(e) > 0}

\* C16: key uniqueness.  The table never holds two rows for one endpoint, and
\* it holds as many rows as there are distinct endpoints with a committed
\* increment: a further increment of an endpoint replaces its row.
C16_KeyUniqueness ==
    /\ \A r1, r2 \in table : r1.endpoint = r2.endpoint => r1 = r2
    /\ Cardinality(table) = Cardinality(Incremented)
    /\ StoredEndpoints = Incremented

\* '/' was incremented twice and '/health' once: two rows, '/' with count 2.
C16_Witness ==
    /\ nOk["/"] = 2 /\ nOk["/health"] = 1
    /\ Cardinality(table) = 2
    /\ Row("/", 2) \in table

\* --------------------------------------------------------------------- C17
\* The keys of a mapping ascend strictly in byte order.
Ascending(d) ==
    \A i, j \in 1 .. Len(d) : i < j => BytesLess(Bytes(d[i][1]), Bytes(d[j][1]))

\* The mappings d1 and d2 have the same entries.
SameEntries(d1, d2) ==
    {d1[i] : i \in 1 .. Len(d1)} = {d2[i] : i \in 1 .. Len(d2)}

\* C17: deterministic ordered snapshot.  Every mapping get_hit_counts returns,
\* and every mapping a /hits response carries, lists its endpoints in
\* ascending order of name, and two snapshots with the same entries are the
\* same list, whatever the order of the increments was.
C17_OrderedSnapshot ==
    \A t \in Threads :
        /\ Ascending(hit_counts[t])
        /\ Ascending(resp[t].hits)
        /\ \A u \in Threads :
               SameEntries(hit_counts[t], hit_counts[u]) => hit_counts[t] = hit_counts[u]

\* '/health' was counted and answered before '/' was first requested, and the
\* snapshot still lists '/' first.
C17_Witness ==
    \E t, u \in Threads :
        /\ route[u] = "/" /\ base[u]["/health"] = 1 /\ nOk["/"] = 1
        /\ pc[t] = "get_unlock"
        /\ hit_counts[t] = << <<"/", 1>>, <<"/health", 1>> >>

\* --------------------------------------------------------------------- C15
\* C15: read-your-writes ordering.  A '/' or '/health' response exists only
\* once the handler's increment_hit_count call has returned, and the mapping
\* a /hits request reads and reports gives each endpoint at least the number
\* of its requests that had been answered after a successful increment when
\* the /hits request was dispatched.
C15_ReadYourWrites ==
    \A t \in Threads :
        /\ (TrackedBy(route[t]) # {} /\ resp[t] # NoResponse) =>
               (pc[t] = "idle" /\ ret[t] # raised[t])
        /\ (route[t] = "/hits" /\ pc[t] \in {"get_unlock", "respond"} /\ ~raised[t]) =>
               \A e \in Tracked : Reported(hit_counts[t], e) >= seen[t][e]
        /\ (resp[t].body = "hits" /\ ~raised[t]) =>
               \A e \in Tracked : Reported(resp[t].hits, e) >= seen[t][e]

\* Two '/' requests were answered before /hits was dispatched; it reports 2.
C15_Witness ==
    \E t \in Threads :
        /\ resp[t].body = "hits" /\ ~raised[t]
        /\ seen[t]["/"] = 2
        /\ Reported(resp[t].hits, "/") = 2

\* --------------------------------------------------------------------- C18
\* Thread t is inside a with db_lock block.
InCritical(t) ==
    pc[t] \in {"inc_exec", "inc_commit", "inc_unlock", "get_select", "get_unlock"}

\* C18: snapshots are atomic with respect to increments.  At most one thread
\* is inside a with db_lock block, and it is the holder of db_lock; and at the
\* instant get_hit_counts has read its mapping and is about to return it, the
\* mapping is the complete content of the table (every stored endpoint with
\* its stored count) and no connection holds an uncommitted write, so each
\* concurrent increment is wholly in the mapping or wholly absent from it.
C18_AtomicSnapshot ==
    /\ \A t, u \in Threads : (InCritical(t) /\ InCritical(u)) => t = u
    /\ \A t \in Threads : InCritical(t) <=> db_lock = t
    /\ \A t \in Threads :
           pc[t] = "get_unlock" =>
               /\ DictKeys(hit_counts[t]) = StoredEndpoints
               /\ Len(hit_counts[t]) = Cardinality(table)
               /\ \A e \in StoredEndpoints : DictValue(hit_counts[t], e) = Count(e)
               /\ \A u \in Threads : pending[u] = {}

\* A snapshot holding a count is about to be returned while another thread's
\* increment is in flight, waiting for db_lock.
C18_Witness ==
    \E t, u \in Threads :
        /\ pc[t] = "get_unlock" /\ hit_counts[t] # <<>>
        /\ pc[u] = "inc_lock"

\* --------------------------------------------------------------------- C13
\* Thread t is inside increment_hit_count or get_hit_counts.
InCall(t) == pc[t] \in IncPcs \cup GetPcs

\* db_lock is held only by a thread inside its with db_lock block, so a thread
\* waiting for db_lock waits for a thread that can run.
LockHeldOnlyInside ==
    /\ db_lock # NoThread => (db_lock \in Threads /\ InCritical(db_lock))
    /\ \A t \in Threads :
           (pc[t] \notin {"inc_exec", "inc_commit", "inc_unlock", "get_select", "get_unlock"})
               => db_lock # t

\* C13: increment never blocks forever.  db_lock is never left held by a
\* thread that is outside its critical section, on the storage-error path as
\* on the others, and under fair scheduling every increment_hit_count and
\* get_hit_counts call eventually returns.
C13_EveryCallReturns ==
    /\ []LockHeldOnlyInside
    /\ \A t \in Threads : InCall(t) ~> (pc[t] \in {"respond", "idle"})

\* A call returned through the storage-error path while another thread was
\* waiting for db_lock, and the lock is free.
C13_Witness ==
    \E t, u \in Threads :
        /\ pc[t] = "respond" /\ raised[t]
        /\ pc[u] \in {"inc_lock", "get_lock"}
        /\ db_lock = NoThread
====
